---- MODULE Spec2Model ----
(***************************************************************************)
(* A model of phantom/faces/faces.py: the lazy model store (_LazyStore),   *)
(* the detect / landmark / encode pipeline built on it, and the Atlas      *)
(* container with its pickle persistence.                                  *)
(***************************************************************************)
EXTENDS Integers, Sequences, FiniteSets, TLC

(***************************************************************************)
(* Bounds of the model.                                                    *)
(***************************************************************************)
\* total number of _LazyStore.get calls explored in a behaviour
MaxGets == 4

\* number of threads sharing the store, and of get calls they start
NumThreads == 2

MaxStarts == 3

\* longest locations list passed to landmark and encode
MaxLocs == 2

\* longest elements list an Atlas is constructed with
MaxElems == 1

(***************************************************************************)
(* State.                                                                  *)
(***************************************************************************)
VARIABLES
  dict,      \* _LazyStore.dict : key -> materialized instance
  reg,       \* _LazyStore.reg  : key -> recipe (initer, args)
  nextId,    \* identity of the next object a factory allocates
  calls,     \* observer: key -> number of times the key's factory was invoked
  failed,    \* observer: key -> number of those invocations that raised
  hits,      \* observer: key -> number of get(key) calls that returned
  rets,      \* observer: key -> set of instances get(key) has returned
  gets,      \* observer: number of get calls made so far
  last       \* observer: the outcome of the latest get call

storeVars == <<dict, reg, nextId, calls, failed, hits, rets, gets, last>>

VARIABLES
  pc,        \* thread -> the line of get the thread is at
  tkey,      \* thread -> the key of the thread's current get call
  local,     \* thread -> get's local variable store
  tret,      \* thread -> the value the thread's latest get returned
  loaded     \* observer: thread -> its latest get invoked the factory itself

threadVars == <<pc, tkey, local, tret, loaded>>

VARIABLES
  op         \* observer: the latest pipeline call, its arguments, its result,
             \* the model invocations it made and the Shapes it constructed

pipeVars == <<op>>

VARIABLES
  atlas,     \* Atlas object -> its __dict__, an ordered list of (name, value)
  files,     \* path -> the file at that path, if any, and its content
  saved,     \* observer: path -> the __dict__ last pickled whole to the path
  alast      \* observer: the latest Atlas call and the __dict__ before it

atlasVars == <<atlas, files, saved, alast>>

vars == <<storeVars, threadVars, pipeVars, atlasVars>>

(***************************************************************************)
(* Python dictionaries as functions with a growing domain.                 *)
(***************************************************************************)
EmptyDict == [k \in {} |-> 0]

Put(d, k, v) == (k :> v) @@ d

(***************************************************************************)
(* _LazyStore                                                              *)
(***************************************************************************)
\* keys used with a free-standing store; "k0" is never registered
Keys == {"k0", "k1", "k2"}

Registrable == {"k1", "k2"}

\* factories a caller may register: one that builds an object, one that
\* raises KeyError while building it, one that raises OSError (file missing)
Initers == {"make", "raise_KeyError", "raise_OSError"}

NoValue == [made_by |-> "nothing", args |-> <<>>, id |-> 0]

ErrUnregistered == "KeyError: unregistered lazy key."

\* func(*args, **kwargs) of line 49: what the call of a recipe does
CallFactory(recipe, id) ==
  CASE recipe.initer = "raise_KeyError" -> [exc |-> "KeyError", value |-> NoValue]
    [] recipe.initer = "raise_OSError"  -> [exc |-> "OSError", value |-> NoValue]
    [] OTHER -> [exc |-> "none", value |-> [made_by |-> recipe.initer, args |-> recipe.args, id |-> id]]

\* lines 52-53 without the assignment: the instance is returned, not cached
StoreNoCache(d, key, store) == [dict |-> d, value |-> store]

\* lines 52-53 as "return self.dict.setdefault(key, store)"
StoreSetDefault(d, key, store) ==
  IF key \in DOMAIN d THEN [dict |-> d, value |-> d[key]]
                      ELSE [dict |-> Put(d, key, store), value |-> store]

\* lines 52-53: the cache after the assignment and the value returned
StoreAndReturn(d, key, store) == [dict |-> Put(d, key, store), value |-> store]

\* get with a placeholder cached for a key that has no recipe
GetCachesSentinel(d, r, key, id) ==
  IF key \in DOMAIN d
    THEN [outcome |-> "return", value |-> d[key], dict |-> d, called |-> FALSE]
  ELSE IF key \notin DOMAIN r
    THEN [outcome |-> ErrUnregistered, value |-> NoValue,
          dict |-> Put(d, key, NoValue), called |-> FALSE]
  ELSE LET res == CallFactory(r[key], id) IN
    CASE res.exc = "KeyError" ->
           [outcome |-> ErrUnregistered, value |-> NoValue, dict |-> d, called |-> TRUE]
      [] res.exc = "none" ->
           LET sr == StoreAndReturn(d, key, res.value) IN
           [outcome |-> "return", value |-> sr.value, dict |-> sr.dict, called |-> TRUE]
      [] OTHER ->
           [outcome |-> res.exc, value |-> NoValue, dict |-> d, called |-> TRUE]

\* _LazyStore.get as a function of the store's state: the outcome, the value
\* returned, the cache afterwards and whether the factory was invoked
LazyGet(d, r, key, id) ==
  IF key \in DOMAIN d
    THEN \* line 43: the cached instance
         [outcome |-> "return", value |-> d[key], dict |-> d, called |-> FALSE]
  ELSE IF key \notin DOMAIN r
    THEN \* line 48 raises KeyError, line 51 re-raises it with the message
         [outcome |-> ErrUnregistered, value |-> NoValue, dict |-> d, called |-> FALSE]
  ELSE LET res == CallFactory(r[key], id) IN
    CASE res.exc = "KeyError" ->
           \* a KeyError out of the factory is caught by the same handler
           [outcome |-> ErrUnregistered, value |-> NoValue, dict |-> d, called |-> TRUE]
      [] res.exc = "none" ->
           LET sr == StoreAndReturn(d, key, res.value) IN
           [outcome |-> "return", value |-> sr.value, dict |-> sr.dict, called |-> TRUE]
      [] OTHER ->
           \* any other exception leaves get as it is
           [outcome |-> res.exc, value |-> NoValue, dict |-> d, called |-> TRUE]

NoCall == [key |-> "k0", outcome |-> "none", value |-> NoValue, registered |-> FALSE]

InitStore ==
  /\ dict = EmptyDict
  /\ reg = EmptyDict
  /\ nextId = 1
  /\ calls = [k \in Keys |-> 0]
  /\ failed = [k \in Keys |-> 0]
  /\ hits = [k \in Keys |-> 0]
  /\ rets = [k \in Keys |-> {}]
  /\ gets = 0
  /\ last = NoCall

\* register(key, initer, *args, **kwargs)
Register(key, initer) ==
  /\ reg' = Put(reg, key, [initer |-> initer, args |-> <<>>])
  /\ UNCHANGED <<dict, nextId, calls, failed, hits, rets, gets, last>>
  /\ UNCHANGED <<threadVars, pipeVars, atlasVars>>

\* get(key)
Get(key) ==
  /\ gets < MaxGets
  /\ LET g == LazyGet(dict, reg, key, nextId) IN
       /\ dict' = g.dict
       /\ nextId' = IF g.called THEN nextId + 1 ELSE nextId
       /\ calls' = IF g.called THEN [calls EXCEPT ![key] = @ + 1] ELSE calls
       /\ failed' = IF g.called /\ g.outcome # "return"
                      THEN [failed EXCEPT ![key] = @ + 1] ELSE failed
       /\ hits' = IF g.outcome = "return" THEN [hits EXCEPT ![key] = @ + 1] ELSE hits
       /\ rets' = IF g.outcome = "return"
                    THEN [rets EXCEPT ![key] = @ \cup {g.value}] ELSE rets
       /\ last' = [key |-> key, outcome |-> g.outcome, value |-> g.value,
                   registered |-> key \in DOMAIN reg]
  /\ gets' = gets + 1
  /\ UNCHANGED reg
  /\ UNCHANGED <<threadVars, pipeVars, atlasVars>>

(***************************************************************************)
(* Threads calling get on a shared store.  No lock is taken anywhere in    *)
(* get, so a thread may be preempted between the lookup of line 43, the    *)
(* factory call of line 49 and the assignment of line 52.                  *)
(***************************************************************************)
Threads == 1..NumThreads

IdleThreads ==
  /\ pc = [t \in Threads |-> "idle"]
  /\ tkey = [t \in Threads |-> "k0"]
  /\ local = [t \in Threads |-> NoValue]
  /\ tret = [t \in Threads |-> NoValue]
  /\ loaded = [t \in Threads |-> FALSE]

\* a thread enters get(key)
TStart(t, key) ==
  /\ pc[t] \in {"idle", "done", "raised"}
  /\ gets < MaxStarts
  /\ gets' = gets + 1
  /\ pc' = [pc EXCEPT ![t] = "line43"]
  /\ tkey' = [tkey EXCEPT ![t] = key]
  /\ loaded' = [loaded EXCEPT ![t] = FALSE]
  /\ UNCHANGED <<dict, reg, nextId, calls, failed, hits, rets, last, local, tret>>
  /\ UNCHANGED <<pipeVars, atlasVars>>

\* lines 42-45: return self.dict[key], or fall through on KeyError
TLookup(t) ==
  /\ pc[t] = "line43"
  /\ IF tkey[t] \in DOMAIN dict
       THEN /\ pc' = [pc EXCEPT ![t] = "done"]
            /\ tret' = [tret EXCEPT ![t] = dict[tkey[t]]]
            /\ hits' = [hits EXCEPT ![tkey[t]] = @ + 1]
            /\ rets' = [rets EXCEPT ![tkey[t]] = @ \cup {dict[tkey[t]]}]
       ELSE /\ pc' = [pc EXCEPT ![t] = "line48"]
            /\ UNCHANGED <<tret, hits, rets>>
  /\ UNCHANGED <<dict, reg, nextId, calls, failed, gets, last, tkey, local, loaded>>
  /\ UNCHANGED <<pipeVars, atlasVars>>

\* lines 47-51: look the recipe up and call the factory
TCall(t) ==
  /\ pc[t] = "line48"
  /\ IF tkey[t] \notin DOMAIN reg
       THEN /\ pc' = [pc EXCEPT ![t] = "raised"]
            /\ UNCHANGED <<nextId, calls, failed, local>>
       ELSE LET res == CallFactory(reg[tkey[t]], nextId) IN
            /\ nextId' = nextId + 1
            /\ calls' = [calls EXCEPT ![tkey[t]] = @ + 1]
            /\ failed' = IF res.exc = "none" THEN failed
                         ELSE [failed EXCEPT ![tkey[t]] = @ + 1]
            /\ local' = [local EXCEPT ![t] = res.value]
            /\ pc' = [pc EXCEPT ![t] = IF res.exc = "none" THEN "line52" ELSE "raised"]
  /\ UNCHANGED <<dict, reg, hits, rets, gets, last, tkey, tret, loaded>>
  /\ UNCHANGED <<pipeVars, atlasVars>>

\* lines 52-53: self.dict[key] = store; return store
TStore(t) ==
  /\ pc[t] = "line52"
  /\ LET sr == StoreAndReturn(dict, tkey[t], local[t]) IN
       /\ dict' = sr.dict
       /\ tret' = [tret EXCEPT ![t] = sr.value]
       /\ hits' = [hits EXCEPT ![tkey[t]] = @ + 1]
       /\ rets' = [rets EXCEPT ![tkey[t]] = @ \cup {sr.value}]
  /\ pc' = [pc EXCEPT ![t] = "done"]
  /\ loaded' = [loaded EXCEPT ![t] = TRUE]
  /\ UNCHANGED <<reg, nextId, calls, failed, gets, last, tkey, local>>
  /\ UNCHANGED <<pipeVars, atlasVars>>

(***************************************************************************)
(* The module's store lazy_vars and the models registered in it.           *)
(***************************************************************************)
PathEncoder == "models/dlib_face_recognition_resnet_model_v1.dat"

PathGender == "models/phantom_gender_model_v1.dat"

PathShape5p == "models/shape_predictor_5_face_landmarks.dat"

PathShape68p == "models/shape_predictor_68_face_landmarks.dat"

ModuleReg ==
  [k \in {"face_detector", "face_encoder", "gender_model",
          "shape_predictor_5p", "shape_predictor_68p"} |->
     CASE k = "face_detector" ->
            [initer |-> "dlib.get_frontal_face_detector", args |-> <<>>]
       [] k = "face_encoder" ->
            [initer |-> "dlib.face_recognition_model_v1", args |-> <<PathEncoder>>]
       [] k = "gender_model" ->
            [initer |-> "_unpickle", args |-> <<PathGender>>]
       [] k = "shape_predictor_5p" ->
            [initer |-> "dlib.shape_predictor", args |-> <<PathShape5p>>]
       [] OTHER ->
            [initer |-> "dlib.shape_predictor", args |-> <<PathShape68p>>]]

\* The running call: the store, the model invocations made so far (calls),
\* the models materialized (loads) and the Shapes constructed (shapes).
NewCtx == [dict |-> dict, nextId |-> nextId,
           calls |-> <<>>, loads |-> <<>>, shapes |-> {}]

\* lazy_vars.get(key) inside a call
LazyVarsGet(ctx, key) ==
  LET g == LazyGet(ctx.dict, ModuleReg, key, ctx.nextId) IN
    [ctx |-> [ctx EXCEPT !.dict = g.dict,
                         !.nextId = IF g.called THEN @ + 1 ELSE @,
                         !.loads = IF g.called THEN Append(@, key) ELSE @],
     value |-> g.value]

(***************************************************************************)
(* The wrapped dlib models.  What they compute is not part of this         *)
(* repository: each is a fixed function of its arguments.                  *)
(***************************************************************************)
Images == {"blank", "pair"}

Rect1 == [left |-> 0, top |-> 0, right |-> 10, bottom |-> 10]

Rect2 == [left |-> 20, top |-> 5, right |-> 30, bottom |-> 15]

\* face_detector(img, upsample): the small face is found only when upsampling
FaceDetector(img, upsample) ==
  CASE img = "blank" -> <<>>
    [] upsample = 0 -> <<Rect1>>
    [] OTHER -> <<Rect1, Rect2>>

NumParts(handle) == IF handle.args = <<PathShape5p>> THEN 5 ELSE 68

ImgShift(img) == IF img = "blank" THEN 0 ELSE 100

\* shape_predictor(img, rect): a full_object_detection with its parts
ShapePredict(handle, img, rect) ==
  [rect |-> rect,
   parts |-> [i \in 1..NumParts(handle) |->
               [x |-> rect.left + i, y |-> rect.top + ImgShift(img) + i]]]

\* face_encoder.compute_face_descriptor(img, shape, jitter)
FaceDescriptor(img, shape, jitter) ==
  [face |-> shape.rect, landmarks |-> Len(shape.parts), img |-> img, jitter |-> jitter]

(***************************************************************************)
(* Helpers of the pipeline.                                                *)
(***************************************************************************)
\* _rect_to_tuple
RectToTuple(r) == <<r.left, r.top, r.right, r.bottom>>

\* _tuple_to_rect
TupleToRect(t) == [left |-> t[1], top |-> t[2], right |-> t[3], bottom |-> t[4]]

\* Shape5p.__init__ and Shape68p.__init__: which predictor the class binds
PredictorKey(cls) ==
  IF cls = "Shape5p" THEN "shape_predictor_5p" ELSE "shape_predictor_68p"

\* the points the variant's landmark definition has
ExpectedPoints(cls) == IF cls = "Shape5p" THEN 5 ELSE 68

\* the smallest list _make_dict can index: p[4], and p[48] and p[60]
MakeDictNeeds(cls) == IF cls = "Shape5p" THEN 5 ELSE 61

\* cls(points): Shape.__init__ stores the points, then the subclass binds its
\* predictor from lazy_vars
NewShape(ctx, cls, points) ==
  IF Len(points) < MakeDictNeeds(cls)
    THEN [ctx |-> ctx, ok |-> FALSE, shape |-> [cls |-> cls, points |-> <<>>, model |-> NoValue]]
    ELSE LET g == LazyVarsGet(ctx, PredictorKey(cls)) IN
      [ctx |-> [g.ctx EXCEPT !.shapes = @ \cup {<<cls, Len(points)>>}],
       ok |-> TRUE,
       shape |-> [cls |-> cls, points |-> points, model |-> g.value]]

\* [(i, i) for i in range(68)]
DummyPoints == [i \in 1..68 |-> <<i - 1, i - 1>>]

\* detect(img, upsample=upsample)
Detect(ctx, img, upsample) ==
  LET g == LazyVarsGet(ctx, "face_detector")
      found == FaceDetector(img, upsample)
  IN [ctx |-> [g.ctx EXCEPT !.calls = Append(@, [model |-> "face_detector", img |-> img,
                                                 arg |-> <<upsample>>])],
      value |-> [i \in 1..Len(found) |-> RectToTuple(found[i])]]

\* the test written "if not locations"
LocationsFalsy(explicit, locations) == ~explicit \/ locations = <<>>

\* "if locations is None"
LocationsIsNone(explicit, locations) == ~explicit

\* the predictor run once per distinct location
PredictAllDistinct(handle, img, locations) ==
  LET keep == {i \in 1..Len(locations) : \A j \in 1..(i - 1) : locations[j] # locations[i]}
      F[n \in 0..Len(locations)] ==
        IF n = 0 THEN <<>>
        ELSE IF n \in keep
          THEN Append(F[n - 1], ShapePredict(handle, img, TupleToRect(locations[n])))
          ELSE F[n - 1]
  IN F[Len(locations)]

\* [model(img, _tuple_to_rect(loc)) for loc in locations]
PredictAll(handle, img, locations) ==
  [i \in 1..Len(locations) |-> ShapePredict(handle, img, TupleToRect(locations[i]))]

PredictCalls(key, img, locations) ==
  [i \in 1..Len(locations) |-> [model |-> key, img |-> img, arg |-> locations[i]]]

\* [(p.x, p.y) for p in face.parts()]
PointsOf(face) == [i \in 1..Len(face.parts) |-> <<face.parts[i].x, face.parts[i].y>>]

\* [class_(...) for face in shapelist], threading the store through
RECURSIVE BuildShapes(_, _, _)
BuildShapes(ctx, cls, shapelist) ==
  IF shapelist = <<>> THEN [ctx |-> ctx, value |-> <<>>]
  ELSE LET n == Len(shapelist)
           front == BuildShapes(ctx, cls, SubSeq(shapelist, 1, n - 1))
           made == NewShape(front.ctx, cls, PointsOf(shapelist[n]))
       IN [ctx |-> made.ctx, value |-> Append(front.value, made.shape)]

\* landmark(img, locations=..., model=cls, upsample=...)
LandmarkCall(ctx0, img, explicit, given, cls, upsample) ==
  LET det == IF LocationsIsNone(explicit, given)
               THEN Detect(ctx0, img, upsample)
               ELSE [ctx |-> ctx0, value |-> given]
      locations == det.value
      shaper == NewShape(det.ctx, cls, DummyPoints)
      model == shaper.shape.model
      shapelist == PredictAll(model, img, locations)
      ctx1 == [shaper.ctx EXCEPT
                 !.calls = @ \o PredictCalls(PredictorKey(cls), img, locations)]
  IN BuildShapes(ctx1, cls, shapelist)

\* encode(img, locations=..., model=cls, jitter=...)
EncodeCall(ctx0, img, explicit, given, cls, jitter) ==
  LET det == IF LocationsIsNone(explicit, given)
               THEN Detect(ctx0, img, 1)
               ELSE [ctx |-> ctx0, value |-> given]
      locations == det.value
      shaper == NewShape(det.ctx, cls, DummyPoints)
      model == shaper.shape.model
      enc == LazyVarsGet(shaper.ctx, "face_encoder")
      shapelist == PredictAll(model, img, locations)
      ctx1 == [enc.ctx EXCEPT
                 !.calls = @ \o PredictCalls(PredictorKey(cls), img, locations)
                            \o [i \in 1..Len(shapelist) |->
                                  [model |-> "face_encoder", img |-> img,
                                   arg |-> locations[i]]]]
  IN [ctx |-> ctx1,
      value |-> [i \in 1..Len(shapelist) |->
                   [ndarray |-> FaceDescriptor(img, shapelist[i], jitter)]]]

(***************************************************************************)
(* Pipeline calls as actions on the module's store.                        *)
(***************************************************************************)
Locs == {RectToTuple(Rect1), RectToTuple(Rect2)}

RECURSIVE SeqsUpTo(_, _)
SeqsUpTo(S, n) ==
  IF n = 0 THEN {<<>>}
  ELSE LET shorter == SeqsUpTo(S, n - 1)
       IN shorter \cup {Append(s, x) : s \in shorter, x \in S}

LocLists == SeqsUpTo(Locs, MaxLocs)

Classes == {"Shape5p", "Shape68p"}

NoOp == [name |-> "none", img |-> "blank", explicit |-> FALSE, locations |-> <<>>,
         cls |-> "Shape68p", param |-> 1, result |-> <<>>,
         calls |-> <<>>, loads |-> <<>>, shapes |-> {}]

Finish(name, img, explicit, given, cls, param, r) ==
  /\ dict' = r.ctx.dict
  /\ nextId' = r.ctx.nextId
  /\ op' = [name |-> name, img |-> img, explicit |-> explicit, locations |-> given,
            cls |-> cls, param |-> param, result |-> r.value,
            calls |-> r.ctx.calls, loads |-> r.ctx.loads, shapes |-> r.ctx.shapes]
  /\ UNCHANGED <<reg, calls, failed, hits, rets, gets, last>>
  /\ UNCHANGED <<threadVars, atlasVars>>

DoDetect(img, upsample) ==
  /\ upsample >= 0
  /\ Finish("detect", img, FALSE, <<>>, "Shape68p", upsample, Detect(NewCtx, img, upsample))

\* explicit = FALSE is the call that leaves locations out
DoLandmark(img, explicit, given, cls, upsample) ==
  /\ ~explicit => given = <<>>
  /\ Finish("landmark", img, explicit, given, cls, upsample,
            LandmarkCall(NewCtx, img, explicit, given, cls, upsample))

DoEncode(img, explicit, given, cls, jitter) ==
  /\ ~explicit => given = <<>>
  /\ Finish("encode", img, explicit, given, cls, jitter,
            EncodeCall(NewCtx, img, explicit, given, cls, jitter))

(***************************************************************************)
(* Python values, and pickle as the stack machine it is: dumps writes the  *)
(* opcodes that rebuild a value, loads runs them.                          *)
(***************************************************************************)
PyNone == [t |-> "None"]

PyBool(b) == [t |-> "bool", v |-> b]

PyStr(str) == [t |-> "str", v |-> str]

PyList(items) == [t |-> "list", v |-> items]

\* a dict keeps its insertion order: a sequence of <<key, value>>
PyDict(pairs) == [t |-> "dict", v |-> pairs]

PyObject(cls, state) == [t |-> "object", cls |-> cls, v |-> state]

Opcode(name, arg) == [op |-> name, arg |-> arg]

RECURSIVE Dumps(_)
RECURSIVE DumpItems(_, _)
DumpItems(items, isDict) ==
  IF items = <<>> THEN <<>>
  ELSE LET n == Len(items)
           x == items[n]
       IN DumpItems(SubSeq(items, 1, n - 1), isDict) \o
          (IF isDict
             THEN <<Opcode("UNICODE", x[1])>> \o Dumps(x[2]) \o <<Opcode("SETITEM", "")>>
             ELSE Dumps(x) \o <<Opcode("APPEND", "")>>)

Dumps(val) ==
  CASE val.t = "None" -> <<Opcode("NONE", "")>>
    [] val.t = "bool" -> <<Opcode(IF val.v THEN "NEWTRUE" ELSE "NEWFALSE", "")>>
    [] val.t = "str" -> <<Opcode("UNICODE", val.v)>>
    [] val.t = "list" -> <<Opcode("EMPTY_LIST", "")>> \o DumpItems(val.v, FALSE)
    [] val.t = "dict" -> <<Opcode("EMPTY_DICT", "")>> \o DumpItems(val.v, TRUE)
    [] OTHER -> <<Opcode("GLOBAL", val.cls), Opcode("NEWOBJ", "")>> \o
                Dumps(val.v) \o <<Opcode("BUILD", "")>>

\* pickle.dumps
Pickle(val) == Dumps(val) \o <<Opcode("STOP", "")>>

\* d[key] = value on an insertion-ordered dict
DictSet(pairs, key, value) ==
  IF \E i \in 1..Len(pairs) : pairs[i][1] = key
    THEN [i \in 1..Len(pairs) |-> IF pairs[i][1] = key THEN <<key, value>> ELSE pairs[i]]
    ELSE Append(pairs, <<key, value>>)

DictKeys(pairs) == {pairs[i][1] : i \in 1..Len(pairs)}

DictGet(pairs, key) == pairs[CHOOSE i \in 1..Len(pairs) : pairs[i][1] = key][2]

Failure == [ok |-> FALSE, value |-> PyNone]

\* pickle.loads: run the opcodes from position i on the stack
RECURSIVE Run(_, _, _)
Run(code, i, stack) ==
  IF i > Len(code) THEN Failure   \* ran off the end: the data was truncated
  ELSE
    LET c == code[i]
        n == Len(stack)
        push(x) == Run(code, i + 1, Append(stack, x))
        replace(k, x) == Run(code, i + 1, Append(SubSeq(stack, 1, n - k), x))
    IN CASE c.op = "STOP" -> IF n = 1 THEN [ok |-> TRUE, value |-> stack[1]] ELSE Failure
         [] c.op = "NONE" -> push(PyNone)
         [] c.op = "NEWTRUE" -> push(PyBool(TRUE))
         [] c.op = "NEWFALSE" -> push(PyBool(FALSE))
         [] c.op = "UNICODE" -> push(PyStr(c.arg))
         [] c.op = "EMPTY_LIST" -> push(PyList(<<>>))
         [] c.op = "EMPTY_DICT" -> push(PyDict(<<>>))
         [] c.op = "GLOBAL" -> push([t |-> "class", cls |-> c.arg])
         [] c.op = "APPEND" ->
              IF n >= 2 /\ stack[n - 1].t = "list"
                THEN replace(2, PyList(Append(stack[n - 1].v, stack[n])))
                ELSE Failure
         [] c.op = "SETITEM" ->
              IF n >= 3 /\ stack[n - 2].t = "dict" /\ stack[n - 1].t = "str"
                THEN replace(3, PyDict(DictSet(stack[n - 2].v, stack[n - 1].v, stack[n])))
                ELSE Failure
         [] c.op = "NEWOBJ" ->
              IF n >= 1 /\ stack[n].t = "class"
                THEN replace(1, PyObject(stack[n].cls, PyNone))
                ELSE Failure
         [] c.op = "BUILD" ->
              IF n >= 2 /\ stack[n - 1].t = "object"
                THEN replace(2, PyObject(stack[n - 1].cls, stack[n]))
                ELSE Failure
         [] OTHER -> Failure

Unpickle(code) == Run(code, 1, <<>>)

(***************************************************************************)
(* Atlas                                                                   *)
(***************************************************************************)
Atlases == {"A", "B"}

AtlasPaths == {"atlas.pkl"}

AllPaths == AtlasPaths \cup {PathGender}

Encodings == {"enc1", "enc2"}

ElementLists == {[i \in 1..Len(q) |-> PyStr(q[i])] : q \in SeqsUpTo(Encodings, MaxElems)}

\* DBSCAN(eps=0.475, min_samples=2), eps in thousandths
Dbscan ==
  PyObject("DBSCAN", PyDict(<<<<"eps", PyStr("0.475")>>, <<"min_samples", PyStr("2")>>>>))

\* Atlas.__init__
AtlasInit(elements, path) ==
  << <<"elements", PyList(elements)>>,
     <<"clusters", PyDict(<<>>)>>,
     <<"groups", PyNone>>,
     <<"grouped", PyBool(FALSE)>>,
     <<"path", PyStr(path)>>,
     <<"_dbscan", Dbscan>>,
     <<"_kmeans", PyNone>> >>

\* a group that raises the flag and computes no groups
GroupSetsFlagOnly(d) == DictSet(d, "grouped", PyBool(TRUE))

\* Atlas.group: the body is "pass"
GroupBody(d) == d

\* dict.update(payload) on an empty or filled dict: a dict's items are set
\* in order; a list is read as a list of pairs, up to the first element that
\* is no pair; anything else cannot be iterated into pairs
RECURSIVE UpdateFromList(_, _)
UpdateFromList(d, items) ==
  IF items = <<>> THEN [ok |-> TRUE, dict |-> d]
  ELSE LET x == items[1] IN
    IF x.t = "list" /\ Len(x.v) = 2 /\ x.v[1].t = "str"
      THEN UpdateFromList(DictSet(d, x.v[1].v, x.v[2]), Tail(items))
      ELSE [ok |-> FALSE, dict |-> d]

RECURSIVE UpdateFromDict(_, _)
UpdateFromDict(d, pairs) ==
  IF pairs = <<>> THEN d
  ELSE UpdateFromDict(DictSet(d, pairs[1][1], pairs[1][2]), Tail(pairs))

DictUpdate(d, payload) ==
  CASE payload.t = "dict" -> [ok |-> TRUE, dict |-> UpdateFromDict(d, payload.v)]
    [] payload.t = "list" -> UpdateFromList(d, payload.v)
    [] OTHER -> [ok |-> FALSE, dict |-> d]

NoFile == [exists |-> FALSE, data |-> <<>>]

\* the payload updated from the __dict__, the attributes held winning
ReplaceKeepingOld(d, payload) ==
  IF payload.t = "dict" THEN [ok |-> TRUE, dict |-> UpdateFromDict(payload.v, d)]
                        ELSE [ok |-> FALSE, dict |-> d]

\* lines 260-261: clear the __dict__, then update it from the payload
ReplaceDict(d, payload) == DictUpdate(<<>>, payload)

\* Atlas.load on the __dict__ d with the file system fs
AtlasLoad(d, fs) ==
  IF "path" \notin DictKeys(d)
    THEN [ok |-> FALSE, exc |-> "AttributeError", dict |-> d]
  ELSE LET f == fs[DictGet(d, "path").v] IN
    IF ~f.exists
      THEN [ok |-> FALSE, exc |-> "FileNotFoundError", dict |-> d]
    ELSE LET new_dict == Unpickle(f.data) IN
      IF ~new_dict.ok
        THEN [ok |-> FALSE, exc |-> "UnpicklingError", dict |-> d]
      ELSE LET u == ReplaceDict(d, new_dict.value) IN
        [ok |-> u.ok, exc |-> IF u.ok THEN "none" ELSE "TypeError", dict |-> u.dict]

\* what pickle.dump writes for the __dict__ d
SavePayload(d) == Pickle(PyDict(d))

NoAtlasCall == [op |-> "none", a |-> "A", ok |-> TRUE, exc |-> "none", prev |-> <<>>]

IdleAtlas ==
  /\ atlas = [a \in Atlases |-> <<>>]
  /\ files = [p \in AllPaths |-> NoFile]
  /\ saved = [p \in AllPaths |-> <<>>]
  /\ alast = NoAtlasCall

NotStore == UNCHANGED <<storeVars, threadVars, pipeVars>>

\* a = Atlas(elements, path)
Construct(a, elements, path) ==
  /\ atlas' = [atlas EXCEPT ![a] = AtlasInit(elements, path)]
  /\ alast' = [op |-> "init", a |-> a, ok |-> TRUE, exc |-> "none", prev |-> atlas[a]]
  /\ UNCHANGED <<files, saved>>
  /\ NotStore

\* a.group()
Group(a) ==
  /\ atlas' = [atlas EXCEPT ![a] = GroupBody(@)]
  /\ alast' = [op |-> "group", a |-> a, ok |-> TRUE, exc |-> "none", prev |-> atlas[a]]
  /\ UNCHANGED <<files, saved>>
  /\ NotStore

\* a.load()
Load(a) ==
  /\ LET r == AtlasLoad(atlas[a], files) IN
       /\ atlas' = [atlas EXCEPT ![a] = r.dict]
       /\ alast' = [op |-> "load", a |-> a, ok |-> r.ok, exc |-> r.exc, prev |-> atlas[a]]
  /\ UNCHANGED <<files, saved>>
  /\ NotStore

\* a.save(); fault is what the file system does to the write: nothing, a
\* refused open, or an error while writing that leaves the file cut short
Save(a, fault) ==
  /\ IF "path" \notin DictKeys(atlas[a])
       THEN /\ alast' = [op |-> "save", a |-> a, ok |-> FALSE, exc |-> "AttributeError",
                         prev |-> atlas[a]]
            /\ UNCHANGED <<files, saved>>
       ELSE LET path == DictGet(atlas[a], "path").v
                data == SavePayload(atlas[a])
            IN CASE fault = "open" ->
                      /\ alast' = [op |-> "save", a |-> a, ok |-> FALSE, exc |-> "OSError",
                                   prev |-> atlas[a]]
                      /\ UNCHANGED <<files, saved>>
                 [] fault = "write" ->
                      /\ \E cut \in {0, Len(data) - 1} :
                           files' = [files EXCEPT ![path] =
                                       [exists |-> TRUE, data |-> SubSeq(data, 1, cut)]]
                      /\ saved' = [saved EXCEPT ![path] = <<>>]
                      /\ alast' = [op |-> "save", a |-> a, ok |-> FALSE, exc |-> "OSError",
                                   prev |-> atlas[a]]
                 [] OTHER ->
                      /\ files' = [files EXCEPT ![path] = [exists |-> TRUE, data |-> data]]
                      /\ saved' = [saved EXCEPT ![path] = atlas[a]]
                      /\ alast' = [op |-> "save", a |-> a, ok |-> TRUE, exc |-> "none",
                                   prev |-> atlas[a]]
  /\ UNCHANGED atlas
  /\ NotStore

(***************************************************************************)
(* Specifications.                                                         *)
(***************************************************************************)
\* one caller, any registrations and get calls
Init == InitStore /\ IdleThreads /\ op = NoOp /\ IdleAtlas

Next ==
  \/ \E key \in Registrable, initer \in Initers : Register(key, initer)
  \/ \E key \in Keys : Get(key)

Spec == Init /\ [][Next]_vars

\* several threads calling get on a store with every registrable key
\* registered once, as the module does at import
InitThreads ==
  /\ dict = EmptyDict
  /\ reg = [k \in Registrable |-> [initer |-> "make", args |-> <<>>]]
  /\ nextId = 1
  /\ calls = [k \in Keys |-> 0]
  /\ failed = [k \in Keys |-> 0]
  /\ hits = [k \in Keys |-> 0]
  /\ rets = [k \in Keys |-> {}]
  /\ gets = 0
  /\ last = NoCall
  /\ IdleThreads
  /\ op = NoOp
  /\ IdleAtlas

NextThreads ==
  \/ \E t \in Threads, key \in Keys : TStart(t, key)
  \/ \E t \in Threads : TLookup(t)
  \/ \E t \in Threads : TCall(t)
  \/ \E t \in Threads : TStore(t)

SpecThreads == InitThreads /\ [][NextThreads]_vars

\* the module after import: lazy_vars holds the five recipes, nothing is loaded
InitPipeline ==
  /\ dict = EmptyDict
  /\ reg = ModuleReg
  /\ nextId = 1
  /\ calls = [k \in Keys |-> 0]
  /\ failed = [k \in Keys |-> 0]
  /\ hits = [k \in Keys |-> 0]
  /\ rets = [k \in Keys |-> {}]
  /\ gets = 0
  /\ last = NoCall
  /\ IdleThreads
  /\ op = NoOp
  /\ IdleAtlas

\* upsample and jitter vary where the call detects; a call given its
\* locations runs with the defaults (upsample=1, jitter=1)
NextPipeline ==
  \/ \E img \in Images, upsample \in {0, 1} : DoDetect(img, upsample)
  \/ \E img \in Images, cls \in Classes, upsample \in {0, 1} :
        DoLandmark(img, FALSE, <<>>, cls, upsample)
  \/ \E img \in Images, given \in LocLists, cls \in Classes :
        DoLandmark(img, TRUE, given, cls, 1)
  \/ \E img \in Images, cls \in Classes, jitter \in {1, 2} :
        DoEncode(img, FALSE, <<>>, cls, jitter)
  \/ \E img \in Images, given \in LocLists, cls \in Classes :
        DoEncode(img, TRUE, given, cls, 1)

SpecPipeline == InitPipeline /\ [][NextPipeline]_vars

\* Atlases on paths nothing else writes: every file is one save wrote
InitAtlas ==
  /\ InitStore /\ IdleThreads /\ op = NoOp
  /\ atlas \in [Atlases -> {AtlasInit(<<>>, p) : p \in AtlasPaths}]
  /\ files = [p \in AllPaths |-> NoFile]
  /\ saved = [p \in AllPaths |-> <<>>]
  /\ alast = NoAtlasCall

NextAtlas ==
  \/ \E a \in Atlases, elements \in ElementLists, path \in AtlasPaths :
        Construct(a, elements, path)
  \/ \E a \in Atlases : Group(a)
  \/ \E a \in Atlases : Load(a)
  \/ \E a \in Atlases, fault \in {"none", "open", "write"} : Save(a, fault)

SpecAtlas == InitAtlas /\ [][NextAtlas]_vars

\* one Atlas, with the package's pickled gender model on disk, a path the
\* Atlas may be given as well
GenderModelFile ==
  [exists |-> TRUE, data |-> Pickle(PyObject("svm", PyDict(<<>>)))]

InitAtlasFS ==
  /\ InitStore /\ IdleThreads /\ op = NoOp
  /\ atlas \in [Atlases -> {AtlasInit(<<>>, p) : p \in AtlasPaths}]
  /\ files = [p \in AllPaths |-> IF p = PathGender THEN GenderModelFile ELSE NoFile]
  /\ saved = [p \in AllPaths |-> <<>>]
  /\ alast = NoAtlasCall

NextAtlasFS ==
  \/ \E elements \in ElementLists, path \in AllPaths : Construct("A", elements, path)
  \/ Group("A")
  \/ Load("A")
  \/ \E fault \in {"none", "open", "write"} : Save("A", fault)

SpecAtlasFS == InitAtlasFS /\ [][NextAtlasFS]_vars

(***************************************************************************)
(* Properties of the lazy store.                                           *)
(***************************************************************************)
\* C1: a key whose factory never failed and whose get has returned had its
\* factory invoked exactly once, and every get of it returned the one
\* instance held in the cache.
C1_SingletonPerKey ==
  \A k \in Keys :
    (k \in DOMAIN reg /\ failed[k] = 0 /\ hits[k] >= 1) =>
      /\ calls[k] = 1
      /\ k \in DOMAIN dict
      /\ rets[k] = {dict[k]}

C1_Witness ==
  \E k \in Keys : hits[k] >= 3 /\ failed[k] = 0 /\ calls[k] = 1

\* C2: a get of a key that is not registered ends with the unregistered-key
\* error and changes neither the cache nor the recipe table.
C2_UnregisteredGetIsPure ==
  [][(gets' = gets + 1 /\ last'.key \notin DOMAIN reg) =>
       (/\ last'.outcome = ErrUnregistered
        /\ dict' = dict
        /\ reg' = reg)]_vars

C2_Witness ==
  /\ gets >= 2
  /\ last.key = "k0"
  /\ last.outcome = ErrUnregistered
  /\ dict = EmptyDict
  /\ reg = EmptyDict

\* C8: get ends with the unregistered-key error only for a key that is not
\* registered.
C8_UnregisteredErrorOnlyIfUnregistered ==
  last.outcome = ErrUnregistered => ~last.registered

\* C9: two threads that both finished get of the same key and both invoked
\* the factory themselves hold different instances, and the factory of the
\* key ran at least twice.
C9_RaceLoadsTwice ==
  \A t1, t2 \in Threads :
    (/\ t1 # t2
     /\ pc[t1] = "done" /\ pc[t2] = "done"
     /\ tkey[t1] = tkey[t2]
     /\ loaded[t1] /\ loaded[t2]) =>
      /\ tret[t1] # tret[t2]
      /\ calls[tkey[t1]] >= 2

C9_Witness ==
  \E t1, t2 \in Threads :
    /\ t1 # t2
    /\ pc[t1] = "done" /\ pc[t2] = "done"
    /\ tkey[t1] = tkey[t2]
    /\ loaded[t1] /\ loaded[t2]
    /\ tret[t1] # tret[t2]
    /\ calls[tkey[t1]] = 2
    /\ gets = 2

(***************************************************************************)
(* Properties of the pipeline.                                             *)
(***************************************************************************)
\* C3: landmark and encode given an explicit empty locations list return an
\* empty list and call neither the detector, nor a landmark predictor, nor
\* the encoder.
C3_EmptyLocationsCallNoModel ==
  (op.name \in {"landmark", "encode"} /\ op.explicit /\ op.locations = <<>>) =>
    (op.result = <<>> /\ op.calls = <<>>)

C3_Witness ==
  /\ op.name = "encode" /\ op.explicit /\ op.locations = <<>>
  /\ op.img = "pair"
  /\ op.result = <<>>
  /\ op.loads # <<>>

\* C4: given an explicit locations list L, landmark returns Len(L) Shapes of
\* the chosen class, the i-th holding the points the class's predictor gives
\* for L[i], and encode returns Len(L) encodings, the i-th computed from the
\* predictor's shape for L[i].
C4_OnePerLocationInOrder ==
  (op.name \in {"landmark", "encode"} /\ op.explicit) =>
    /\ Len(op.result) = Len(op.locations)
    /\ PredictorKey(op.cls) \in DOMAIN dict
    /\ \A i \in 1..Len(op.locations) :
         LET face == ShapePredict(dict[PredictorKey(op.cls)], op.img,
                                  TupleToRect(op.locations[i]))
         IN IF op.name = "landmark"
              THEN /\ op.result[i].cls = op.cls
                   /\ op.result[i].points = PointsOf(face)
              ELSE op.result[i] = [ndarray |-> FaceDescriptor(op.img, face, op.param)]

C4_Witness ==
  /\ op.name = "landmark" /\ op.explicit
  /\ Len(op.locations) = 2
  /\ op.locations[1] # op.locations[2]
  /\ op.result[1].points # op.result[2].points

\* C7: every Shape constructed during a landmark or encode call has the
\* number of points of its variant.
C7_ShapePointCountMatchesVariant ==
  op.name \in {"landmark", "encode"} =>
    \A s \in op.shapes : s[2] = ExpectedPoints(s[1])

(***************************************************************************)
(* Properties of the Atlas.                                                *)
(***************************************************************************)
Field(d, name) == IF name \in DictKeys(d) THEN DictGet(d, name) ELSE [t |-> "missing"]

\* C5: after a load that succeeded, the Atlas holds the attributes, and the
\* elements, clusters, groups and grouped, that the Atlas which last saved to
\* the path held when it saved, whatever the loading Atlas held before.
C5_SaveLoadRoundTrip ==
  (alast.op = "load" /\ alast.ok) =>
    LET before == saved[Field(alast.prev, "path").v]
        now == atlas[alast.a]
    IN /\ DictKeys(now) = DictKeys(before)
       /\ \A name \in {"elements", "clusters", "groups", "grouped"} :
            /\ name \in DictKeys(now)
            /\ Field(now, name) = Field(before, name)

C5_Witness ==
  /\ alast.op = "load" /\ alast.ok /\ alast.a = "B"
  /\ Field(alast.prev, "elements") = PyList(<<>>)
  /\ Field(atlas["B"], "elements") = PyList(<<PyStr("enc1")>>)
  /\ Field(atlas["A"], "elements") = PyList(<<PyStr("enc1")>>)

\* C6: every Atlas has grouped True exactly when its groups is not None.
C6_GroupedIffGroups ==
  \A a \in Atlases :
    /\ {"grouped", "groups"} \subseteq DictKeys(atlas[a])
    /\ (Field(atlas[a], "grouped") = PyBool(TRUE)) <=> (Field(atlas[a], "groups") # PyNone)

C6_Witness ==
  /\ alast.op = "load" /\ alast.ok
  /\ atlas[alast.a] # alast.prev
  /\ \E a \in Atlases : saved[Field(atlas[a], "path").v] # <<>>

\* C10: a load that failed left the Atlas as it was before the call.
C10_FailedLoadChangesNothing ==
  (alast.op = "load" /\ ~alast.ok) => atlas[alast.a] = alast.prev

====
